---- MODULE Spec2Model ----
(***************************************************************************)
(* A model of COSMOSAC/modules.py: the atom classifier (_get_atom_type),   *)
(* the dispersion parameter (_get_dsp), the exchange energy (_cal_DW), the *)
(* segment-activity iteration (cal_ln_gam_res), the dispersive interaction *)
(* parameters (cal_ln_gam_dsp) and the driver (calculate_gamma).           *)
(*                                                                         *)
(* Indices are 0-based as in the Python source.  Floating-point values are *)
(* carried as scaled integers; the scale is stated where it is introduced. *)
(***************************************************************************)
EXTENDS Integers, Sequences, FiniteSets, TLC

VARIABLES
    \* _get_atom_type
    atom,       \* atom symbols by index (parameter atom)
    bond,       \* bond matrix, bond[i][j] in {0, 1} (parameter bond)
    i,          \* the loop variable of `for i, atom_type in enumerate(atom)`
    dtype,      \* dispersion type of each atom
    stype,      \* hydrogen-bonding (sigma profile) type of each atom
    dntype,     \* set of dispersive-nature votes
    dnatr,      \* dispersive nature of the molecule
    brk,        \* TRUE once a `break` has left the atom loop
    \* _cal_DW
    T,          \* the system temperature (parameter T)
    DW,         \* the exchange energy, DW[i][j][m][n]
    di,         \* the loop variable of `for i in range(3)`
    dj,         \* the loop variable of `for j in range(i + 1)`
    \* calculate_gamma
    chemical_profiles,  \* the molecules of the mixture (library indices)
    mi,         \* how many of chemical_profiles have been processed
    bond_type,  \* the dispersion types of the molecule processed last
    eks,        \* the dispersive parameters (ek in cal_ln_gam_dsp)
    natrs,      \* the dispersive natures (dnatr in cal_ln_gam_dsp)
    gam,        \* "returned" once the activity coefficients are returned
    error,      \* the exception that ended the call, or "none"
    \* cal_ln_gam_res
    it,         \* how many passes of `for _ in range(500)` have run
    diff,       \* the maximum relative change of the last pass
    ln_gam_res, \* "computed" once the residual term is returned
    \* cal_ln_gam_dsp
    w,          \* the interaction parameters w[i][j]
    wi,         \* the loop variable of `for i in range(num_mol)`
    ln_gam_dsp, \* "zero", "computed" or "nan" once the term is returned
    pc          \* position in the function that is running

atomVars == <<atom, bond, i, dtype, stype, dntype, dnatr, brk>>

dwVars == <<DW, di, dj>>

gammaVars == <<chemical_profiles, mi, bond_type, eks, natrs, gam>>

resVars == <<it, diff, ln_gam_res>>

dspVars == <<w, wi, ln_gam_dsp>>

vars == <<atom, bond, i, dtype, stype, dntype, dnatr, brk, T, DW, di, dj,
          chemical_profiles, mi, bond_type, eks, natrs, gam, error,
          it, diff, ln_gam_res, w, wi, ln_gam_dsp, pc>>

(***************************************************************************)
(* Bounds of the model.                                                    *)
(***************************************************************************)
\* Molecules of the library with at most this many atoms are classified.
MaxAtoms == 7

\* The exchange energy is built for the temperatures MinT..MaxT (in K), the
\* range in which its scaled entries stay below 2^31.
MinT == 270

MaxT == 300

\* cal_ln_gam_dsp is called for mixtures of at most this many molecules.
MaxMol == 3

\* calculate_gamma is called for mixtures of at most this many molecules.
MaxComp == 2

(***************************************************************************)
(* Floating-point values.  A finite double is carried as a scaled integer; *)
(* the two special values an operation of the source can produce are kept  *)
(* apart, with the IEEE 754 rules for them.                                *)
(***************************************************************************)
Fin(v) == [k |-> "fin", v |-> v]

Inf == [k |-> "inf", v |-> 0]

NaN == [k |-> "nan", v |-> 0]

\* c * s for a coefficient c that is finite or +inf and a finite s >= 0:
\* inf * 0 is nan.
FMul(c, s) ==
    CASE c.k = "nan" -> NaN
      [] c.k = "inf" -> IF s = 0 THEN NaN ELSE Inf
      [] OTHER -> Fin(c.v * s)

\* x - h for a finite h.
FSub(x, h) == IF x.k = "fin" THEN Fin(x.v - h) ELSE x

\* a == b on doubles: nan equals nothing, itself included.
FEq(a, b) == a.k # "nan" /\ b.k # "nan" /\ a = b

(***************************************************************************)
(* Temperatures: a whole number of kelvins, or Tiny, a positive double so  *)
(* small (below 9e-151, e.g. 1e-160) that _BES / T / T exceeds the largest *)
(* double.                                                                 *)
(***************************************************************************)
Kelvin(t) == [tiny |-> FALSE, K |-> t]

Tiny == [tiny |-> TRUE, K |-> 0]

Positive(t) == t.tiny \/ t.K > 0

(***************************************************************************)
(* The variables of a function that is not running.                        *)
(***************************************************************************)
IdleAtom ==
    /\ atom = <<>> /\ bond = <<>> /\ i = 0 /\ dtype = <<>> /\ stype = <<>>
    /\ dntype = {} /\ dnatr = "NHB" /\ brk = FALSE

IdleDW == DW = <<>> /\ di = 0 /\ dj = 0

IdleGamma ==
    /\ chemical_profiles = <<>> /\ mi = 0 /\ bond_type = <<>>
    /\ eks = <<>> /\ natrs = <<>> /\ gam = "none" /\ error = "none"

IdleRes == it = 0 /\ diff = Fin(0) /\ ln_gam_res = "none"

IdleDsp == w = <<>> /\ wi = 0 /\ ln_gam_dsp = "none"

(***************************************************************************)
(* Input molecules: atom symbols in the order of the SMILES heavy atoms    *)
(* followed by the added hydrogens, and the bonded pairs (1-based here,    *)
(* shifted to 0-based indices by PermAtoms and PermBonds).                 *)
(***************************************************************************)
Library ==
    << [atoms |-> <<"O", "H", "H">>,                          \* water, O
        bonds |-> {{1, 2}, {1, 3}}],
       [atoms |-> <<"F", "H">>,                               \* HF, F
        bonds |-> {{1, 2}}],
       [atoms |-> <<"S", "H", "H">>,                          \* H2S, S
        bonds |-> {{1, 2}, {1, 3}}],
       [atoms |-> <<"N", "H", "H", "H">>,                     \* ammonia, N
        bonds |-> {{1, 2}, {1, 3}, {1, 4}}],
       [atoms |-> <<"C", "O", "H", "H">>,                     \* formaldehyde, C=O
        bonds |-> {{1, 2}, {1, 3}, {1, 4}}],
       [atoms |-> <<"C", "H", "H", "H", "H">>,                \* methane, C
        bonds |-> {{1, 2}, {1, 3}, {1, 4}, {1, 5}}],
       [atoms |-> <<"O", "C", "O", "H", "H">>,                \* formic acid, OC=O
        bonds |-> {{1, 2}, {2, 3}, {1, 4}, {2, 5}}],
       [atoms |-> <<"N", "O", "H", "H", "H">>,                \* hydroxylamine, NO
        bonds |-> {{1, 2}, {1, 3}, {1, 4}, {2, 5}}],
       [atoms |-> <<"C", "O", "H", "H", "H", "H">>,           \* methanol, CO
        bonds |-> {{1, 2}, {1, 3}, {1, 4}, {1, 5}, {2, 6}}],
       [atoms |-> <<"O", "S", "C", "O", "O", "H", "H">>,      \* OSC(=O)O
        bonds |-> {{1, 2}, {2, 3}, {3, 4}, {3, 5}, {1, 6}, {5, 7}}],
       [atoms |-> <<"O", "N", "C", "O", "O", "H", "H", "H">>, \* ONC(=O)O
        bonds |-> {{1, 2}, {2, 3}, {3, 4}, {3, 5}, {1, 6}, {2, 7}, {5, 8}}] >>

Mols == {m \in 1..Len(Library) : Len(Library[m].atoms) <= MaxAtoms}

NumAtoms(m) == Len(Library[m].atoms)

\* The atom sequence of library molecule m, index q holding library atom p[q].
PermAtoms(m, p) ==
    [q \in 0..(NumAtoms(m) - 1) |-> Library[m].atoms[p[q] + 1]]

\* The bond matrix of library molecule m under the same renumbering.
PermBonds(m, p) ==
    [q \in 0..(NumAtoms(m) - 1) |->
        [r \in 0..(NumAtoms(m) - 1) |->
            IF {p[q] + 1, p[r] + 1} \in Library[m].bonds THEN 1 ELSE 0]]

Identity(m) == [a \in 0..(NumAtoms(m) - 1) |-> a]

(***************************************************************************)
(* _get_atom_type                                                          *)
(***************************************************************************)
DispNatures == {"NHB", "HBOA", "HBDA", "WATER", "COOH"}

\* np.flatnonzero(bond[i]): the indices bonded to atom idx.
Neighbours(bond_, idx) == {j \in DOMAIN bond_ : bond_[idx][j] # 0}

\* The first key of a dict built in ascending index order.
First(S) == CHOOSE a \in S : \A b \in S : a <= b

\* ard.values()
Values(atom_, S) == {atom_[j] : j \in S}

AtomPropKeys == {"C", "O", "N", "F", "Cl", "H"}

\* atom_prop[sym].get(deg, ("other", "NHB", "NHB"))
AtomProp(sym, deg) ==
    CASE sym = "C" /\ deg = 2 -> <<"C(sp)", "NHB", "NHB">>
      [] sym = "C" /\ deg = 3 -> <<"C(sp2)", "NHB", "NHB">>
      [] sym = "C" /\ deg = 4 -> <<"C(sp3)", "NHB", "NHB">>
      [] sym = "O" /\ deg = 1 -> <<"O(sp2)", "OT", "HBOA">>
      [] sym = "O" /\ deg = 2 -> <<"O(sp3)", "OT", "HBOA">>
      [] sym = "N" /\ deg = 1 -> <<"N(sp)", "OT", "HBOA">>
      [] sym = "N" /\ deg = 2 -> <<"N(sp2)", "OT", "HBOA">>
      [] sym = "N" /\ deg = 3 -> <<"N(sp3)", "OT", "HBOA">>
      [] sym = "F" /\ deg = 1 -> <<"F", "OT", "HBOA">>
      [] sym = "Cl" /\ deg = 1 -> <<"Cl", "NHB", "NHB">>
      [] sym = "H" /\ deg = 1 -> <<"H(other)", "NHB", "NHB">>
      [] OTHER -> <<"other", "NHB", "NHB">>

\* The state of the classification before the atom loop.
InitTypes(atom_) ==
    [dtype  |-> [a \in DOMAIN atom_ |-> "other"],
     stype  |-> [a \in DOMAIN atom_ |-> "NHB"],
     dntype |-> {},
     brk    |-> FALSE]

\* A `break` of the atom loop.
Break(st) == [st EXCEPT !.brk = TRUE]

\* A plausible slip: only the hydrogen at hand is re-tagged.
WaterTagSelfOnly(st, h, k) ==
    [st EXCEPT !.dtype[h] = "H(water)",
               !.dntype = @ \cup {"WATER"},
               !.brk = TRUE]

\* The molecule is water: both hydrogens are re-tagged, the vote is cast and
\* the loop is left.
WaterTag(st, h, k) ==
    [st EXCEPT !.dtype[h] = "H(water)",
               !.dtype[k] = "H(water)",
               !.dntype = @ \cup {"WATER"},
               !.brk = TRUE]

\* The branch `if atom_type == "H" and "O" in ard_i.values()`.
HydroxylBranch(atom_, bond_, st, h) ==
    LET ard_i == Neighbours(bond_, h)
        j     == First(ard_i)
        ard_j == Neighbours(bond_, j)
        s4    == [st EXCEPT !.dtype[h] = "H(OH)",
                            !.stype[h] = "OH",
                            !.stype[j] = "OH",
                            !.dntype = @ \cup {"HBDA"}]
    IN  IF Cardinality(ard_j) # 2
        THEN Break(s4)
        ELSE
          LET k     == First(ard_j \ {h})
              ard_k == Neighbours(bond_, k)
          IN  IF atom_[k] = "H"
              THEN WaterTag(s4, h, k)
              ELSE IF ~ ( /\ atom_[k] = "C"
                          /\ Cardinality(ard_k) = 3
                          /\ Cardinality({n \in ard_k : atom_[n] = "O"}) = 2 )
              THEN Break(s4)
              ELSE
                LET m     == First({n \in ard_k : n # j /\ atom_[n] = "O"})
                    ard_m == Neighbours(bond_, m)
                IN  IF Cardinality(ard_m) # 1
                    THEN Break(s4)
                    ELSE [s4 EXCEPT !.dntype = @ \cup {"COOH"}]

\* One pass of the body of the atom loop, for atom a.
LoopBody(atom_, bond_, st, a) ==
    LET ard_i == Neighbours(bond_, a)
        p  == AtomProp(atom_[a], Cardinality(ard_i))
        s1 == IF atom_[a] \in AtomPropKeys
              THEN [st EXCEPT !.dtype[a] = p[1],
                              !.stype[a] = p[2],
                              !.dntype = @ \cup {p[3]}]
              ELSE st
        s2 == IF atom_[a] = "H" /\ "N" \in Values(atom_, ard_i)
              THEN [s1 EXCEPT !.dtype[a] = "H(NH)",
                              !.stype[a] = "OT",
                              !.dntype = @ \cup {"HBDA"}]
              ELSE s1
        s3 == IF atom_[a] = "H" /\ "F" \in Values(atom_, ard_i)
              THEN [s2 EXCEPT !.stype[a] = "OT",
                              !.dntype = @ \cup {"HBDA"}]
              ELSE s2
    IN  IF atom_[a] = "H" /\ "O" \in Values(atom_, ard_i)
        THEN HydroxylBranch(atom_, bond_, s3, a)
        ELSE s3

\* A plausible slip: the first two checks in the other order.
ResolveSwapped(votes) ==
    LET d0 == "NHB"
        d1 == IF "HBDA" \in votes THEN "HBDA" ELSE d0
        d2 == IF "HBOA" \in votes THEN "HBOA" ELSE d1
        d3 == IF "WATER" \in votes THEN "WATER" ELSE d2
    IN  IF "COOH" \in votes THEN "COOH" ELSE d3

\* The four `if ... in dntype` statements, each overwriting dnatr.
Resolve(votes) ==
    LET d0 == "NHB"
        d1 == IF "HBOA" \in votes THEN "HBOA" ELSE d0
        d2 == IF "HBDA" \in votes THEN "HBDA" ELSE d1
        d3 == IF "WATER" \in votes THEN "WATER" ELSE d2
    IN  IF "COOH" \in votes THEN "COOH" ELSE d3

\* The atom loop from atom a on, as a whole.
RECURSIVE RunLoop(_, _, _, _)
RunLoop(atom_, bond_, st, a) ==
    IF a \notin DOMAIN atom_
    THEN st
    ELSE LET s == LoopBody(atom_, bond_, st, a)
         IN  IF s.brk THEN s ELSE RunLoop(atom_, bond_, s, a + 1)

\* _get_atom_type(atom, bond) as a whole: (dtype, dnatr).
GetAtomType(atom_, bond_) ==
    LET s == RunLoop(atom_, bond_, InitTypes(atom_), 0)
    IN  [dtype |-> s.dtype, dnatr |-> Resolve(s.dntype)]

\* --- the classifier, one loop pass at a time ---------------------------

InitAtom ==
    /\ \E m \in Mols :
         \E p \in Permutations(0..(NumAtoms(m) - 1)) :
            /\ atom = PermAtoms(m, p)
            /\ bond = PermBonds(m, p)
    /\ i = 0
    /\ dtype = InitTypes(atom).dtype
    /\ stype = InitTypes(atom).stype
    /\ dntype = {}
    /\ dnatr = "NHB"
    /\ brk = FALSE
    /\ pc = "loop"
    /\ T = Kelvin(0)
    /\ IdleDW /\ IdleGamma /\ IdleRes /\ IdleDsp

\* A plausible slip: `continue` where the source says `break`.
LoopStepContinue ==
    /\ pc = "loop"
    /\ LET s == LoopBody(atom, bond,
                   [dtype |-> dtype, stype |-> stype, dntype |-> dntype,
                    brk |-> FALSE], i)
       IN  /\ dtype' = s.dtype
           /\ stype' = s.stype
           /\ dntype' = s.dntype
           /\ brk' = (brk \/ s.brk)
           /\ IF i + 1 \in DOMAIN atom
              THEN i' = i + 1 /\ pc' = "loop"
              ELSE i' = i /\ pc' = "resolve"
    /\ UNCHANGED <<atom, bond, dnatr, T, dwVars, gammaVars, error, resVars, dspVars>>

\* One pass of `for i, atom_type in enumerate(atom)`; a break, or the last
\* atom, ends the loop and leaves i where it is.
LoopStep ==
    /\ pc = "loop"
    /\ LET s == LoopBody(atom, bond,
                   [dtype |-> dtype, stype |-> stype, dntype |-> dntype,
                    brk |-> FALSE], i)
       IN  /\ dtype' = s.dtype
           /\ stype' = s.stype
           /\ dntype' = s.dntype
           /\ brk' = s.brk
           /\ IF ~s.brk /\ i + 1 \in DOMAIN atom
              THEN i' = i + 1 /\ pc' = "loop"
              ELSE i' = i /\ pc' = "resolve"
    /\ UNCHANGED <<atom, bond, dnatr, T, dwVars, gammaVars, error, resVars, dspVars>>

\* `find the dispersive nature of the molecule` and the return.
ResolveStep ==
    /\ pc = "resolve"
    /\ dnatr' = Resolve(dntype)
    /\ pc' = "done"
    /\ UNCHANGED <<atom, bond, i, dtype, stype, dntype, brk, T, dwVars,
                   gammaVars, error, resVars, dspVars>>

NextAtom == LoopStep \/ ResolveStep

SpecAtom == InitAtom /\ [][NextAtom]_vars

(***************************************************************************)
(* Properties of the classifier.                                           *)
(***************************************************************************)
\* The molecule holds the pattern H-O-C(=O)-: a hydrogen on an oxygen with
\* exactly two bonds, whose other neighbour is a carbon with exactly three
\* bonds, two of them to oxygen, the second oxygen having exactly one bond.
HasCarboxyl ==
    \E h, o, c, o2 \in DOMAIN atom :
        /\ atom[h] = "H" /\ atom[o] = "O" /\ atom[c] = "C" /\ atom[o2] = "O"
        /\ o2 # o
        /\ bond[h][o] # 0 /\ bond[o][c] # 0 /\ bond[c][o2] # 0
        /\ Cardinality(Neighbours(bond, o)) = 2
        /\ Cardinality(Neighbours(bond, c)) = 3
        /\ Cardinality({n \in Neighbours(bond, c) : atom[n] = "O"}) = 2
        /\ Cardinality(Neighbours(bond, o2)) = 1

\* C1: a molecule that holds a carboxylic-acid pattern gets the dispersive
\* nature COOH, in every atom ordering and whatever other groups it has.
C1_CarboxylIsCOOH ==
    (pc = "done" /\ HasCarboxyl) => dnatr = "COOH"

\* The molecule at hand renumbered by p: atom a moves to index p[a].
Renumbered(p) ==
    LET inv == [q \in DOMAIN atom |-> CHOOSE a \in DOMAIN atom : p[a] = q]
    IN  [atom |-> [q \in DOMAIN atom |-> atom[inv[q]]],
         bond |-> [q \in DOMAIN atom |->
                      [r \in DOMAIN atom |-> bond[inv[q]][inv[r]]]]]

\* C2: the dispersive nature is the same for every renumbering of the atoms
\* that keeps the connectivity.
C2_PermutationStable ==
    pc = "done" =>
        \A p \in Permutations(DOMAIN atom) :
            GetAtomType(Renumbered(p).atom, Renumbered(p).bond).dnatr = dnatr

\* Exactly three atoms: one O bonded to two H, and no other bond.
IsWater ==
    /\ Cardinality(DOMAIN atom) = 3
    /\ \E o \in DOMAIN atom :
          /\ atom[o] = "O"
          /\ \A h \in DOMAIN atom \ {o} :
                /\ atom[h] = "H"
                /\ bond[o][h] # 0 /\ bond[h][o] # 0
                /\ \A g \in DOMAIN atom \ {o} : bond[h][g] = 0
          /\ bond[o][o] = 0

\* C3: for water, in every atom ordering, both hydrogens get the category
\* H(water) and the dispersive nature is WATER.
C3_Water ==
    (pc = "done" /\ IsWater) =>
        /\ dnatr = "WATER"
        /\ \A h \in DOMAIN atom : atom[h] = "H" => dtype[h] = "H(water)"

\* Water classified with the oxygen not first, so that the second hydrogen
\* is tagged from the first one's pass.
C3_Witness ==
    /\ pc = "done" /\ IsWater /\ atom[0] = "H"
    /\ dnatr = "WATER"
    /\ Cardinality({h \in DOMAIN atom : dtype[h] = "H(water)"}) = 2

\* What C8 says of a state in which the loop was left by a break at atom i.
StoppedAt ==
    /\ pc \in {"resolve", "done"}
    /\ \A a \in DOMAIN atom :
          a > i => \/ dtype[a] = "other"
                   \/ dtype[a] = "H(water)" /\ dtype[i] = "H(water)"

\* C8: when the hydrogen-on-oxygen branch of atom i stops, the whole atom
\* loop ends: no atom after i receives its table category or casts a vote,
\* it keeps "other" unless it was tagged before (the second water hydrogen).
C8_BreakEndsLoop ==
    /\ [](brk => StoppedAt)
    /\ [][brk => (dtype' = dtype /\ dntype' = dntype /\ i' = i)]_vars

\* A break that left atoms of the table unclassified.
C8_Witness ==
    /\ pc = "done" /\ brk
    /\ \E a \in DOMAIN atom :
          a > i /\ atom[a] \in AtomPropKeys /\ dtype[a] = "other"

Votes == {"HBOA", "HBDA", "WATER", "COOH"}

\* The priority order HBOA < HBDA < WATER < COOH, NHB below all.
Rank(l) ==
    CASE l = "NHB" -> 0
      [] l = "HBOA" -> 1
      [] l = "HBDA" -> 2
      [] l = "WATER" -> 3
      [] l = "COOH" -> 4

\* C9: the dispersive nature returned is one of the five labels, it is the
\* vote of the highest priority among those accumulated, and it is NHB
\* exactly when none of HBOA, HBDA, WATER, COOH was accumulated.
C9_PriorityResolution ==
    pc = "done" =>
        /\ dnatr \in DispNatures
        /\ \A v \in dntype : Rank(v) <= Rank(dnatr)
        /\ dnatr # "NHB" => dnatr \in dntype
        /\ (dnatr = "NHB") <=> (dntype \cap Votes = {})

\* A molecule with several competing votes.
C9_Witness ==
    /\ pc = "done"
    /\ Cardinality(dntype \cap Votes) >= 2
    /\ dnatr \in dntype

(***************************************************************************)
(* _cal_DW.  Charge densities are in units of 1e-3 e/A^2, _AES and _chb in *)
(* units of 1e-2, so an entry of DW is in units of 1e-8 kcal/mol.          *)
(***************************************************************************)
NumSp == 3

NumBins == 51

AES == 652569

BES == 148590000

chb == << <<0, 0, 0>>, <<0, 401378, 301643>>, <<0, 301643, 93231>> >>

\* _chb[a, b]
Chb(a, b) == chb[a + 1][b + 1]

\* np.linspace(-0.025, 0.025, 51)[m]; sig(m) + sig(50 - m) is 0, as it is
\* exactly for the two end points of the grid of doubles.
sig(m) == m - 25

\* _cES(T) = _AES + _BES / T / T, for T # 0; +inf when the quotient
\* overflows.
cES(t) ==
    IF t.tiny THEN Inf ELSE Fin(AES + ((BES \div t.K) * 100) \div t.K)

\* _cES(T) raises ZeroDivisionError.
cESRaises(t) == ~t.tiny /\ t.K = 0

Bins == 0..(NumBins - 1)

\* _cES(T) * (sig + sigT) ** 2 - chb_part, for the pair of types (a, b):
\* entry [m][n] is taken at sigT[m] and sig[n].
Block(t, a, b) ==
    [m \in Bins |->
        [n \in Bins |->
            LET mask     == (sig(n) * sig(m)) < 0
                chb_part == IF mask
                            THEN Chb(a, b) * (sig(n) - sig(m)) * (sig(n) - sig(m))
                            ELSE 0
            IN  FSub(FMul(cES(t), (sig(n) + sig(m)) * (sig(n) + sig(m))),
                     chb_part)]]

\* np.zeros((3, 3, 51, 51))
ZeroDW ==
    [a \in 0..(NumSp - 1) |->
        [b \in 0..(NumSp - 1) |-> [m \in Bins |-> [n \in Bins |-> Fin(0)]]]]

InitDW ==
    /\ T \in {Kelvin(t) : t \in MinT..MaxT} \cup {Tiny}
    /\ DW = ZeroDW
    /\ di = 0
    /\ dj = 0
    /\ pc = "dw_loop"
    /\ IdleAtom /\ IdleGamma /\ IdleRes /\ IdleDsp

\* A plausible slip: only DW[i, j] is assigned.
DWStepHalf ==
    /\ pc = "dw_loop"
    /\ DW' = [DW EXCEPT ![di][dj] = Block(T, di, dj)]
    /\ IF dj < di
       THEN di' = di /\ dj' = dj + 1 /\ pc' = "dw_loop"
       ELSE /\ di' = di + 1
            /\ dj' = 0
            /\ pc' = IF di + 1 < NumSp THEN "dw_loop" ELSE "dw_done"
    /\ UNCHANGED <<T, atomVars, gammaVars, error, resVars, dspVars>>

\* One pass of the inner loop: DW[i, j] = DW[j, i] = ...
DWStep ==
    /\ pc = "dw_loop"
    /\ DW' = [DW EXCEPT ![dj][di] = Block(T, di, dj),
                        ![di][dj] = Block(T, di, dj)]
    /\ IF dj < di
       THEN di' = di /\ dj' = dj + 1 /\ pc' = "dw_loop"
       ELSE /\ di' = di + 1
            /\ dj' = 0
            /\ pc' = IF di + 1 < NumSp THEN "dw_loop" ELSE "dw_done"
    /\ UNCHANGED <<T, atomVars, gammaVars, error, resVars, dspVars>>

NextDW == DWStep

SpecDW == InitDW /\ [][NextDW]_vars

\* DW[a, b, m, n] == DW[b, a, n, m] for all indices.
Symmetric ==
    \A a, b \in 0..(NumSp - 1) :
        \A m, n \in Bins : FEq(DW[a][b][m][n], DW[b][a][n][m])

\* C7 as stated: for every temperature T > 0 the tensor built by _cal_DW
\* satisfies DW[i, j, m, n] == DW[j, i, n, m].
C7_SymmetricAnyT ==
    (pc = "dw_done" /\ Positive(T)) => Symmetric

\* C7 as amended: the same for every temperature T > 0 at which _cES(T) is
\* finite.
C7_SymmetricFiniteCES ==
    (pc = "dw_done" /\ Positive(T) /\ cES(T).k = "fin") => Symmetric

\* A finished tensor whose hydrogen-bonding part differs between two pairs
\* of types.
C7_Witness ==
    /\ pc = "dw_done" /\ Positive(T) /\ cES(T).k = "fin"
    /\ DW[1][2][10][40] # DW[2][2][10][40]
    /\ DW[1][2][10][40] = DW[2][1][40][10]
    /\ DW[0][1][10][30] # Fin(0)

(***************************************************************************)
(* _get_dsp.  Dispersive parameters are in units of 1e-4.                  *)
(***************************************************************************)
NoneVal == [k |-> "None", v |-> 0]

TypeError == [k |-> "TypeError", v |-> 0]

\* A Python float of the table.
PyFloat(v) == [k |-> "float", v |-> v]

\* The Python int 0 of the table.
PyInt(v) == [k |-> "int", v |-> v]

\* ddict.get(c): the table value, or None for a key the table lacks.
ddictGet(c) ==
    CASE c = "C(sp3)" -> PyFloat(1157023)
      [] c = "C(sp2)" -> PyFloat(1174650)
      [] c = "C(sp)" -> PyFloat(660691)
      [] c = "N(sp3)" -> PyFloat(154901)
      [] c = "N(sp2)" -> PyFloat(846268)
      [] c = "N(sp)" -> PyFloat(1096621)
      [] c = "O(sp3)" -> PyFloat(956184)
      [] c = "O(sp2)" -> PyFloat(-110549)
      [] c = "F" -> PyFloat(529318)
      [] c = "Cl" -> PyFloat(1042534)
      [] c = "H(water)" -> PyFloat(583301)
      [] c = "H(OH)" -> PyFloat(193477)
      [] c = "H(NH)" -> PyFloat(1411709)
      [] c = "H(other)" -> PyInt(0)
      [] OTHER -> NoneVal

RECURSIVE SumUpTo(_, _)
\* f[0] + ... + f[n]
SumUpTo(f, n) == IF n < 0 THEN 0 ELSE f[n] + SumUpTo(f, n - 1)

\* int(v) of a table value: truncation toward zero.
Trunc(v) == IF v < 0 THEN -(((-v) \div 10000) * 10000) ELSE (v \div 10000) * 10000

\* np.sum(ek) / np.count_nonzero(ek) of an array of numbers; 0 / 0 is nan.
MeanNonzero(vals) ==
    LET n == Cardinality({a \in DOMAIN vals : vals[a] # 0})
        t == SumUpTo(vals, Cardinality(DOMAIN vals) - 1)
    IN  IF n = 0 THEN NaN
        ELSE IF t < 0 THEN Fin(-((-t) \div n)) ELSE Fin(t \div n)

\* _get_dsp(dtype), for at least one atom.  np.vectorize takes the type of
\* the output array from ddict.get of the first atom: float64 (a None
\* becomes nan), int64 (a None cannot be converted: TypeError; a float is
\* truncated) or object (a None stays, and the sum or the division raises
\* TypeError).  The result is a number, nan, or the exception.
GetDsp(dtype_) ==
    LET got   == [a \in DOMAIN dtype_ |-> ddictGet(dtype_[a])]
        first == got[0].k
        nones == \E a \in DOMAIN dtype_ : got[a].k = "None"
    IN  CASE first = "float" ->
                 IF nones THEN NaN
                 ELSE MeanNonzero([a \in DOMAIN dtype_ |-> got[a].v])
          [] first = "int" ->
                 IF nones THEN TypeError
                 ELSE MeanNonzero([a \in DOMAIN dtype_ |-> Trunc(got[a].v)])
          [] OTHER -> TypeError

(***************************************************************************)
(* cal_ln_gam_res.  The tensors of segment activities are not carried: the *)
(* maximum relative change of a pass, which is all the control flow reads, *)
(* is any of the values of DiffVals (units of 1e-5).                       *)
(***************************************************************************)
MaxIter == 500

Tol == 10

DiffVals == {Fin(0), Fin(Tol), Fin(Tol + 1), NaN}

\* A plausible slip: `<` for `<=`.
ConvergedStrict(d) == d.k = "fin" /\ d.v < Tol

\* diff <= 1e-4; a comparison with nan is False.
Converged(d) == d.k = "fin" /\ d.v <= Tol

InitRes ==
    /\ T \in {Kelvin(-300), Kelvin(0), Kelvin(298), Kelvin(373), Tiny}
    /\ pc = "res_enter"
    /\ IdleAtom /\ IdleDW /\ IdleGamma /\ IdleRes /\ IdleDsp

\* The lines before the loop: exp_DW needs _cal_DW(T), whose _cES(T) divides
\* by T; then Gam, Gam_mix and diff are initialised.
ResEnter ==
    /\ pc = "res_enter"
    /\ IF cESRaises(T)
       THEN /\ pc' = "raised"
            /\ error' = "ZeroDivisionError"
            /\ UNCHANGED <<it, diff>>
       ELSE /\ pc' = "iter"
            /\ it' = 0
            /\ diff' = Fin(100000)
            /\ error' = error
    /\ UNCHANGED <<T, atomVars, dwVars, gammaVars, ln_gam_res, dspVars>>

\* One pass of `for _ in range(500)`: update, damping, diff, and the break
\* when diff <= 1e-4.
IterStep ==
    /\ pc = "iter"
    /\ it < MaxIter
    /\ \E d \in DiffVals :
          /\ diff' = d
          /\ it' = it + 1
          /\ pc' = IF Converged(d) THEN "res_out" ELSE "iter"
    /\ UNCHANGED <<T, atomVars, dwVars, gammaVars, error, ln_gam_res, dspVars>>

\* The else of the loop: all 500 passes ran without a break.
IterExhausted ==
    /\ pc = "iter"
    /\ it = MaxIter
    /\ pc' = "raised"
    /\ error' = "Converge Failed"
    /\ UNCHANGED <<T, atomVars, dwVars, gammaVars, resVars, dspVars>>

\* The residual term from Gam and Gam_mix, and the return.
ResFinish ==
    /\ pc = "res_out"
    /\ ln_gam_res' = "computed"
    /\ pc' = "res_done"
    /\ UNCHANGED <<T, atomVars, dwVars, gammaVars, error, it, diff, dspVars>>

NextRes == ResEnter \/ IterStep \/ IterExhausted \/ ResFinish

SpecRes == InitRes /\ [][NextRes]_vars

\* C5: the loop runs at most 500 passes and stops at the first pass whose
\* maximum relative change is <= 1e-4, the 500th included; when no pass up
\* to the 500th reaches the tolerance the function raises, and returns no
\* residual computed from the last iterate.
C5_IterationCap ==
    /\ it \in 0..500
    /\ (pc = "iter" /\ it > 0) => ~(diff.k = "fin" /\ diff.v <= 10)
    /\ pc \in {"res_out", "res_done"} =>
          (diff.k = "fin" /\ diff.v <= 10 /\ it >= 1)
    /\ (error = "Converge Failed") =>
          (it = 500 /\ ~(diff.k = "fin" /\ diff.v <= 10) /\ ln_gam_res = "none")
    /\ (pc = "raised" /\ Positive(T)) => error = "Converge Failed"
    /\ (pc = "iter" /\ it = 500) => ~(diff.k = "fin" /\ diff.v <= 10)

\* The 500th pass meets the tolerance exactly, and the result is returned.
C5_Witness ==
    pc = "res_done" /\ it = 500 /\ diff = Fin(10) /\ ln_gam_res = "computed"

(***************************************************************************)
(* cal_ln_gam_dsp.  w is in units of 1e-5.  The parameters ek and dnatr    *)
(* are eks and natrs; num_mol = len(x) is their length.                    *)
(***************************************************************************)
W0 == 27027

wpair == {{"WATER", "HBOA"}, {"COOH", "NHB"}, {"COOH", "HBDA"}, {"WATER", "COOH"}}

num_mol == Len(eks)

InitDsp ==
    /\ \E n \in 1..MaxMol :
          /\ eks \in [1..n -> {Fin(1157023), NoneVal}]
          /\ natrs \in [1..n -> DispNatures]
    /\ pc = "dsp_enter"
    /\ T = Kelvin(0)
    /\ chemical_profiles = <<>> /\ mi = 0 /\ bond_type = <<>>
    /\ gam = "none" /\ error = "none"
    /\ IdleAtom /\ IdleDW /\ IdleRes /\ IdleDsp

\* The applicability check, and w = np.ones(...) * 0.27027.
DspEnter ==
    /\ pc = "dsp_enter"
    /\ IF (\E a \in DOMAIN eks : eks[a] = NoneVal)
          \/ (\E a \in DOMAIN natrs : natrs[a] = "None")
       THEN /\ ln_gam_dsp' = "zero"
            /\ pc' = "dsp_done"
            /\ UNCHANGED <<w, wi>>
       ELSE /\ w' = [a \in 0..(num_mol - 1) |-> [b \in 0..(num_mol - 1) |-> W0]]
            /\ wi' = 0
            /\ pc' = "dsp_w"
            /\ UNCHANGED ln_gam_dsp
    /\ UNCHANGED <<T, atomVars, dwVars, gammaVars, error, resVars>>

\* A plausible slip: only w[i][j] is assigned.
WRowHalf(w_, natrs_, r) ==
    [a \in DOMAIN w_ |->
        [b \in DOMAIN w_ |->
            IF a = r /\ b < r /\ {natrs_[a + 1], natrs_[b + 1]} \in wpair
            THEN -W0
            ELSE w_[a][b]]]

\* One pass of `for i in range(num_mol)` with its inner `for j in range(i)`:
\* w[i][j] = w[j][i] = -0.27027 for the pairs of wpair.
WRow(w_, natrs_, r) ==
    [a \in DOMAIN w_ |->
        [b \in DOMAIN w_ |->
            IF /\ (a = r /\ b < r) \/ (b = r /\ a < r)
               /\ {natrs_[a + 1], natrs_[b + 1]} \in wpair
            THEN -W0
            ELSE w_[a][b]]]

WStep ==
    /\ pc = "dsp_w"
    /\ wi < num_mol
    /\ w' = WRow(w, natrs, wi)
    /\ wi' = wi + 1
    /\ UNCHANGED <<T, atomVars, dwVars, gammaVars, error, resVars, ln_gam_dsp, pc>>

\* A and the sums of ln_gam_dsp; with more than one molecule a nan among ek
\* reaches every sum.
DspSum ==
    /\ pc = "dsp_w"
    /\ wi = num_mol
    /\ ln_gam_dsp' = IF num_mol > 1 /\ \E a \in DOMAIN eks : eks[a] = NaN
                     THEN "nan" ELSE "computed"
    /\ pc' = "dsp_done"
    /\ UNCHANGED <<T, atomVars, dwVars, gammaVars, error, resVars, w, wi>>

NextDsp == DspEnter \/ WStep \/ DspSum

SpecDsp == InitDsp /\ [][NextDsp]_vars

\* C10: for every two distinct molecules a and b, w[a][b] = w[b][a]; it is
\* -0.27027 exactly when their labels are one of the pairs {WATER, HBOA},
\* {COOH, NHB}, {COOH, HBDA}, {WATER, COOH}, and +0.27027 for every other
\* pair of labels, two equal labels included.
C10_InteractionParameter ==
    (pc = "dsp_done" /\ ln_gam_dsp # "zero") =>
        \A a, b \in 0..(Len(natrs) - 1) :
            a # b =>
                LET la == natrs[a + 1]
                    lb == natrs[b + 1]
                    flip == \/ {la, lb} = {"WATER", "HBOA"}
                            \/ {la, lb} = {"COOH", "NHB"}
                            \/ {la, lb} = {"COOH", "HBDA"}
                            \/ {la, lb} = {"WATER", "COOH"}
                IN  /\ w[a][b] = w[b][a]
                    /\ flip => w[a][b] = -27027
                    /\ ~flip => w[a][b] = 27027

\* Three molecules: a flipped pair, a pair of equal labels and a third pair.
C10_Witness ==
    /\ pc = "dsp_done" /\ ln_gam_dsp = "computed" /\ Len(natrs) = 3
    /\ natrs = <<"COOH", "WATER", "WATER">>
    /\ w[2][0] = -27027 /\ w[0][2] = -27027 /\ w[1][2] = 27027

(***************************************************************************)
(* calculate_gamma.  A molecule of the mixture is given with its atoms in  *)
(* the order of the library.                                               *)
(***************************************************************************)
InitGamma ==
    /\ \E n \in 1..MaxComp : chemical_profiles \in [1..n -> Mols]
    /\ T \in {Kelvin(-300), Kelvin(0), Kelvin(298)}
    /\ mi = 0
    /\ bond_type = <<>>
    /\ eks = <<>>
    /\ natrs = <<>>
    /\ gam = "none"
    /\ error = "none"
    /\ pc = "profiles"
    /\ IdleAtom /\ IdleDW /\ IdleRes /\ IdleDsp

\* One pass of `for chemical_profile in chemical_profiles`: _get_atom_type,
\* _get_dsp and the two appends.
ProfileStep ==
    /\ pc = "profiles"
    /\ mi < Len(chemical_profiles)
    /\ LET m == chemical_profiles[mi + 1]
           r == GetAtomType(PermAtoms(m, Identity(m)), PermBonds(m, Identity(m)))
           e == GetDsp(r.dtype)
       IN  /\ bond_type' = r.dtype
           /\ IF e = TypeError
              THEN /\ pc' = "raised"
                   /\ error' = "TypeError"
                   /\ UNCHANGED <<eks, natrs, mi>>
              ELSE /\ eks' = Append(eks, e)
                   /\ natrs' = Append(natrs, r.dnatr)
                   /\ mi' = mi + 1
                   /\ pc' = IF mi + 1 = Len(chemical_profiles)
                            THEN "comb" ELSE "profiles"
                   /\ error' = error
    /\ UNCHANGED <<T, atomVars, dwVars, chemical_profiles, gam, resVars, dspVars>>

\* cal_ln_gam_comb (a closed form, not carried), then the call of
\* cal_ln_gam_res.
CombStep ==
    /\ pc = "comb"
    /\ pc' = "res_enter"
    /\ UNCHANGED <<T, atomVars, dwVars, gammaVars, error, resVars, dspVars>>

\* cal_ln_gam_res has returned (its locals are gone): the call of
\* cal_ln_gam_dsp.
CallDsp ==
    /\ pc = "res_done"
    /\ chemical_profiles # <<>>
    /\ it' = 0
    /\ diff' = Fin(0)
    /\ pc' = "dsp_enter"
    /\ UNCHANGED <<T, atomVars, dwVars, gammaVars, error, ln_gam_res, dspVars>>

\* The sum of the three terms, the exponential and the return.
Finish ==
    /\ pc = "dsp_done"
    /\ chemical_profiles # <<>>
    /\ gam' = "returned"
    /\ pc' = "done"
    /\ UNCHANGED <<T, atomVars, dwVars, chemical_profiles, mi, bond_type, eks,
                   natrs, error, resVars, dspVars>>

NextGamma ==
    \/ ProfileStep
    \/ CombStep
    \/ ResEnter
    \/ IterStep
    \/ IterExhausted
    \/ ResFinish
    \/ CallDsp
    \/ DspEnter
    \/ WStep
    \/ DspSum
    \/ Finish

SpecGamma == InitGamma /\ [][NextGamma]_vars

\* C4: for a temperature of 0 or below, calculate_gamma fails with an
\* input-shape error before the segment-activity solver is reached, and
\* returns no activity coefficients.
C4_NonPositiveTRejected ==
    ~Positive(T) =>
        /\ pc \notin {"res_enter", "iter", "res_out", "res_done"}
        /\ error \in {"none", "InputShapeError", "TypeError"}
        /\ gam = "none"

\* C6: _get_dsp returns an absent result, with no exception and no number,
\* whenever an atom's category is not a key of the dispersion table, so that
\* calculate_gamma completes with the dispersive term disabled.
C6_AbsentForUnmapped ==
    (\E a \in DOMAIN bond_type : bond_type[a] = "other") =>
        /\ error # "TypeError"
        /\ eks # <<>> /\ eks[Len(eks)] = NoneVal
        /\ pc = "dsp_done" => ln_gam_dsp = "zero"

====
